---- MODULE Spec2Model ----
(***************************************************************************)
(* The dashboard script M5_IndividualA.py as a state machine.              *)
(*                                                                         *)
(* The script is re-executed from top to bottom on every widget change.    *)
(* The state is the loaded table df (cached by st.cache_data), the values  *)
(* of the four widgets, and the tables and scalars the last execution      *)
(* computed (out).  One action per widget, each one a full execution of    *)
(* the script with the new widget value.                                   *)
(*                                                                         *)
(* A cell of a table is a set holding at most one value: {} is a missing   *)
(* cell (NaN / NaT), {v} a present one.                                    *)
(***************************************************************************)
EXTENDS Integers, Sequences, FiniteSets, TLC

\* df: the table load_data returned; sort_kind: whether this build's quicksort
\* keeps equal values in input order; window, date_range, view_mode,
\* metric_choice: the widget values; out: what the last execution computed.
\* golden is not program state: it keeps the table, the widget values and the
\* outputs of one earlier execution, to compare later executions with.
VARIABLES df, sort_kind, window, date_range, view_mode, metric_choice, out, golden

vars == <<df, sort_kind, window, date_range, view_mode, metric_choice, out, golden>>

\* ------------------------------------------------------------------ bounds
MaxDay == 3
MaxCount == 2
MaxShare == 2
MaxCountries == 6
MaxSessionRows == 1

\* --------------------------------------------------------------- constants
TopN == 5

H7 == "Covid_new_hospitalizations_last_7days"
I7 == "Covid_new_icu_admissions_last_7days"
H28 == "Covid_new_hospitalizations_last_28days"
I28 == "Covid_new_icu_admissions_last_28days"

Windows == {"Weekly (7 days)", "Monthly (28 days)"}

Metrics == {"Hospitalizations", "ICU admissions"}

region_map ==
    [ Top5_globally |-> {},
      Top5_AMR |-> {"AMR"},
      Top5_EUR |-> {"EUR"},
      Top5_AFR |-> {"AFR"},
      Top5_EMR |-> {"EMR"},
      Top5_SEAR |-> {"SEAR"},
      Top5_WPR |-> {"WPR"} ]

ViewModes == DOMAIN region_map

\* Python's order on the strings the tables hold (str.__lt__), as a list.
StrOrder ==
    << "AFR", "AMR", "Brazil", "Chile", "EMR", "EUR", "France", "Ghana",
       "India", "Japan", "Kenya", "OTHER", "SEAR", "WPR" >>

StrRank(s) == CHOOSE i \in 1..Len(StrOrder) : StrOrder[i] = s

\* ------------------------------------------------------------ cell helpers
isna(c) == c = {}

notna(c) == c # {}

item(c) == CHOOSE x \in c : TRUE

RECURSIVE SeqSum(_)
SeqSum(s) == IF s = <<>> THEN 0 ELSE s[1] + SeqSum(Tail(s))

\* Series.sum(): missing cells are skipped, an empty or all-missing column sums to 0.
ColSum(rows, col) ==
    SeqSum([i \in 1..Len(rows) |-> IF isna(rows[i][col]) THEN 0 ELSE item(rows[i][col])])

\* Series.max() of a column of numbers: missing when the column is empty.
ColMax(rows, col) ==
    IF rows = <<>> THEN {}
    ELSE {CHOOSE m \in {rows[i][col] : i \in 1..Len(rows)} :
              \A i \in 1..Len(rows) : rows[i][col] <= m}

IdxMaxLast(rows, col) ==
    CHOOSE i \in 1..Len(rows) :
        /\ \A j \in 1..Len(rows) : rows[j][col] <= rows[i][col]
        /\ \A j \in (i + 1)..Len(rows) : rows[j][col] < rows[i][col]

\* Series.idxmax(): the first row, in row order, holding the maximum.
IdxMax(rows, col) ==
    CHOOSE i \in 1..Len(rows) :
        /\ \A j \in 1..Len(rows) : rows[j][col] <= rows[i][col]
        /\ \A j \in 1..(i - 1) : rows[j][col] < rows[i][col]

\* The members of S as a list, ascending by rank.
RECURSIVE SortedKeys(_, _)
SortedKeys(S, rank) ==
    IF S = {} THEN <<>>
    ELSE LET k == CHOOSE x \in S : \A y \in S : rank[x] <= rank[y]
         IN  <<k>> \o SortedKeys(S \ {k}, rank)

\* The distinct present values of a key column (groupby drops missing keys).
KeysOf(rows, key) == {item(rows[i][key]) : i \in {j \in 1..Len(rows) : notna(rows[j][key])}}

RowsWith(rows, key, k) == SelectSeq(rows, LAMBDA r : r[key] = {k})

DateRank(S) == [d \in S |-> d]

NameRankDescending(S) == [s \in S |-> 0 - StrRank(s)]

NameRank(S) == [s \in S |-> StrRank(s)]

\* ------------------------------------------------------------ load_data
DateText(d) == IF d < 10 THEN "2021-01-0" \o ToString(d) ELSE "2021-01-" \o ToString(d)

\* pd.to_datetime(errors="coerce"): the day of a well-formed date, else NaT.
to_datetime(s) ==
    IF \E d \in 1..31 : DateText(d) = s
    THEN {CHOOSE d \in 1..31 : DateText(d) = s}
    ELSE {}

\* pd.to_numeric(errors="coerce"): the number a cell spells, else NaN.
to_numeric(s) ==
    IF \E n \in -9..99 : ToString(n) = s
    THEN {CHOOSE n \in -9..99 : ToString(n) = s}
    ELSE {}

\* read_csv: an empty text cell is read as missing.
read_text(s) == IF s = "" THEN {} ELSE {s}

load_row(raw) ==
    [ Date_reported |-> to_datetime(raw.Date_reported),
      Country |-> read_text(raw.Country),
      WHO_region |-> read_text(raw.WHO_region),
      Covid_new_hospitalizations_last_7days |-> to_numeric(raw[H7]),
      Covid_new_icu_admissions_last_7days |-> to_numeric(raw[I7]),
      Covid_new_hospitalizations_last_28days |-> to_numeric(raw[H28]),
      Covid_new_icu_admissions_last_28days |-> to_numeric(raw[I28]) ]

load_data(csv) == [i \in 1..Len(csv) |-> load_row(csv[i])]

\* ------------------------------------------------------------ sorting
\* Positions 1..n in the order DataFrame.sort_values(col, ascending) gives.
\* sort_values uses kind="quicksort", which numpy does not promise to be
\* stable: rows with equal values keep their input order in a build whose
\* quicksort is stable on the input ("stable"), and come out in another order
\* otherwise ("unstable", modelled by the reversed order).
RECURSIVE ArgSort(_, _, _, _)
ArgSort(P, vals, ascending, kind) ==
    IF P = {} THEN <<>>
    ELSE LET Before(i, j) ==
                 \/ IF ascending THEN vals[i] < vals[j] ELSE vals[i] > vals[j]
                 \/ /\ vals[i] = vals[j]
                    /\ IF kind = "stable" THEN i <= j ELSE i >= j
             f == CHOOSE i \in P : \A j \in P : Before(i, j)
         IN  <<f>> \o ArgSort(P \ {f}, vals, ascending, kind)

sort_values(rows, vals, ascending, kind) ==
    LET ix == ArgSort(1..Len(rows), vals, ascending, kind)
    IN  [i \in 1..Len(rows) |-> rows[ix[i]]]

\* ------------------------------------------------------------ the filter panel
hosp_col(w) == IF w = "Weekly (7 days)" THEN H7 ELSE H28

icu_col(w) == IF w = "Weekly (7 days)" THEN I7 ELSE I28

ValidDates(t) == KeysOf(t, "Date_reported")

min_date(t) == CHOOSE d \in ValidDates(t) : \A x \in ValidDates(t) : d <= x

max_date(t) == CHOOSE d \in ValidDates(t) : \A x \in ValidDates(t) : d >= x

\* What st.date_input can return: a (start, end) pair of days between
\* min_value and max_value, or a 1-tuple while the user has picked one day.
DateInputs(t) ==
    LET D == min_date(t)..max_date(t)
    IN  {<<s, e>> : s \in D, e \in D} \cup {<<s>> : s \in D}

start_date(t, dr) == IF Len(dr) = 2 THEN dr[1] ELSE min_date(t)

end_date(t, dr) == IF Len(dr) = 2 THEN dr[2] ELSE max_date(t)

\* (df["Date_reported"] >= start) & (df["Date_reported"] <= end): a
\* comparison with NaT is False.
in_range_open_end(r, s, e) == \E d \in r.Date_reported : d >= s /\ d < e

in_range(r, s, e) == \E d \in r.Date_reported : d >= s /\ d <= e

df_global_reordered(t, s, e) ==
    SelectSeq(t, LAMBDA r : in_range(r, s, e) \/ in_range(r, e, s))

df_global(t, s, e) == SelectSeq(t, LAMBDA r : in_range(r, s, e))

\* ------------------------------------------------------------ aggregation
\* groupby(key, as_index=False)[cols].sum(): one row per present key,
\* ascending by key; the sums skip missing cells.
groupby_sum(rows, key, cols, rank) ==
    LET ks == SortedKeys(KeysOf(rows, key), rank)
    IN  [i \in 1..Len(ks) |->
            [c \in {key} \cup cols |->
                IF c = key THEN ks[i] ELSE ColSum(RowsWith(rows, key, ks[i]), c)]]

df_ts(g, w) ==
    groupby_sum(g, "Date_reported", {hosp_col(w), icu_col(w)}, DateRank(KeysOf(g, "Date_reported")))

\* .sort_values("Date_reported") of the daily series
daily_sorted(ts, kind) ==
    sort_values(ts, [i \in 1..Len(ts) |-> ts[i].Date_reported], TRUE, kind)

\* f"{int(x) if pd.notna(x) else 0:,}"
card_number(c) == IF notna(c) THEN item(c) ELSE 0

peak_value(ts, col) == ColMax(ts, col)

peak_date(ts, col) == {ts[IdxMax(ts, col)].Date_reported}

\* ------------------------------------------------------------ country trends
y_col(w, m) == IF m = "Hospitalizations" THEN hosp_col(w) ELSE icu_col(w)

df_scope_unscoped(g, view) == g

\* Scoped by the widget value of the execution before this one.
df_scope_stale(g, view) ==
    IF region_map[view_mode] = {} THEN g
    ELSE SelectSeq(g, LAMBDA r : r.WHO_region = region_map[view_mode])

df_scope(g, view) ==
    IF region_map[view] = {} THEN g
    ELSE SelectSeq(g, LAMBDA r : r.WHO_region = region_map[view])

df_rank(scope, kind) ==
    LET grp == groupby_sum(scope, "Country", {H7}, NameRank(KeysOf(scope, "Country")))
        tot == [i \in 1..Len(grp) |-> [Country |-> grp[i].Country, Total_hosp |-> grp[i][H7]]]
    IN  sort_values(tot, [i \in 1..Len(tot) |-> tot[i].Total_hosp], FALSE, kind)

head_one_more(s, n) == SubSeq(s, 1, IF Len(s) < n + 1 THEN Len(s) ELSE n + 1)

head(s, n) == SubSeq(s, 1, IF Len(s) < n THEN Len(s) ELSE n)

top_countries(rank) == [i \in 1..Len(head(rank, TopN)) |-> rank[i].Country]

Range(s) == {s[i] : i \in 1..Len(s)}

df_country_ts(scope, top, kind) ==
    LET sel == SelectSeq(scope, LAMBDA r : r.Country \subseteq Range(top) /\ notna(r.Country))
    IN  sort_values(sel, [i \in 1..Len(sel) |-> item(sel[i].Date_reported)], TRUE, kind)

\* ------------------------------------------------------------ regional ICU share
\* A percentage is kept as the exact fraction num / den.
icu_pct_of(icu, hosp) == [num |-> icu * 100, den |-> hosp]

region_totals(g) ==
    LET grp == groupby_sum(g, "WHO_region", {H7, I7}, NameRank(KeysOf(g, "WHO_region")))
    IN  [i \in 1..Len(grp) |->
            [WHO_region |-> grp[i].WHO_region, Total_hosp |-> grp[i][H7], Total_icu |-> grp[i][I7]]]

nonnegative_hosp(row) == row.Total_hosp >= 0

positive_hosp(row) == row.Total_hosp > 0

df_reg(g, kind) ==
    LET kept == SelectSeq(region_totals(g), positive_hosp)
        pct == [i \in 1..Len(kept) |->
                   [WHO_region |-> kept[i].WHO_region,
                    Total_hosp |-> kept[i].Total_hosp,
                    Total_icu |-> kept[i].Total_icu,
                    ICU_pct |-> icu_pct_of(kept[i].Total_icu, kept[i].Total_hosp)]]
    IN  sort_values(pct, [i \in 1..Len(pct) |-> pct[i].Total_hosp], FALSE, kind)

\* ------------------------------------------------------------ one execution
\* What an execution leaves when st.stop() ends it at line 128: nothing
\* below the date filter has been computed.
Nothing ==
    [ halted |-> FALSE, warnings |-> {}, ran |-> {},
      df_global |-> <<>>,
      total_hosp_hist |-> {}, total_icu_hist |-> {},
      peak_hosp |-> {}, peak_icu |-> {},
      card_peak_hosp |-> {}, card_peak_icu |-> {},
      df_ts |-> <<>>,
      hosp_peak_value |-> {}, hosp_peak_date |-> {},
      icu_peak_value |-> {}, icu_peak_date |-> {},
      y_col |-> {}, df_scope |-> <<>>, df_rank |-> <<>>,
      top_countries |-> <<>>, df_country_ts |-> <<>>,
      df_reg |-> <<>> ]

\* Lines 138-186: the four summary cards.
insights_container(o, g, w) ==
    LET ts == df_ts(g, w)
        ph == peak_value(ts, hosp_col(w))
        pi == peak_value(ts, icu_col(w))
    IN  [o EXCEPT !.ran = @ \cup {"totals", "cards"},
                  !.total_hosp_hist = {ColSum(g, H7)},
                  !.total_icu_hist = {ColSum(g, I7)},
                  !.peak_hosp = ph,
                  !.peak_icu = pi,
                  !.card_peak_hosp = {card_number(ph)},
                  !.card_peak_icu = {card_number(pi)}]

\* Lines 202-258: the daily global series and its two peak markers.
tab_overview(o, g, w, kind) ==
    LET ts == daily_sorted(df_ts(g, w), kind)
    IN  [o EXCEPT !.ran = @ \cup {"daily", "peak"},
                  !.df_ts = ts,
                  !.hosp_peak_value = peak_value(ts, hosp_col(w)),
                  !.hosp_peak_date = peak_date(ts, hosp_col(w)),
                  !.icu_peak_value = peak_value(ts, icu_col(w)),
                  !.icu_peak_date = peak_date(ts, icu_col(w))]

\* Lines 335-424: the country-trend view.
tab_country(o, g, w, view, m, kind) ==
    LET sc == df_scope(g, view)
        rk == df_rank(sc, kind)
        top == top_countries(rk)
        o1 == [o EXCEPT !.ran = @ \cup {"scope"}, !.y_col = {y_col(w, m)}, !.df_scope = sc]
    IN  IF sc = <<>>
        THEN [o1 EXCEPT !.warnings = @ \cup {"No data available for this region and date/time selection."}]
        ELSE LET o2 == [o1 EXCEPT !.ran = @ \cup {"rank"}, !.df_rank = rk, !.top_countries = top]
             IN  IF top = <<>>
                 THEN [o2 EXCEPT !.warnings = @ \cup {"No countries found for this selection."}]
                 ELSE [o2 EXCEPT !.ran = @ \cup {"country_ts"},
                                 !.df_country_ts = df_country_ts(sc, top, kind)]

tab_corr_of_scope(o, g, kind) ==
    [o EXCEPT !.ran = @ \cup {"regional"}, !.df_reg = df_reg(o.df_scope, kind)]

\* Lines 428-506: the regional ICU-share view.
tab_corr(o, g, kind) ==
    [o EXCEPT !.ran = @ \cup {"regional"}, !.df_reg = df_reg(g, kind)]

\* The script from line 120 on, for the table t and the widget values.
Script(t, kind, w, dr, view, m) ==
    LET g == df_global(t, start_date(t, dr), end_date(t, dr))
        o0 == [Nothing EXCEPT !.df_global = g]
    IN  IF g = <<>>
        THEN [o0 EXCEPT !.halted = TRUE,
                        !.warnings = {"No data for the current filter selection."}]
        ELSE tab_corr(
                 tab_country(tab_overview(insights_container(o0, g, w), g, w, kind), g, w, view, m, kind),
                 g, kind)

\* ------------------------------------------------------------ the files loaded
Blank == ""

CsvRow(d, c, r, h7, i7, h28, i28) ==
    [ Date_reported |-> d, Country |-> c, WHO_region |-> r,
      Covid_new_hospitalizations_last_7days |-> h7,
      Covid_new_icu_admissions_last_7days |-> i7,
      Covid_new_hospitalizations_last_28days |-> h28,
      Covid_new_icu_admissions_last_28days |-> i28 ]

SeqsUpTo(S, n) == UNION {[1..k -> S] : k \in 1..n}

\* Files of up to three rows that differ in their date, some unparseable.
DateCsvs ==
    SeqsUpTo({CsvRow(d, "Chile", "AMR", "1", "1", "2", "1") :
                 d \in {DateText(d) : d \in 1..MaxDay} \cup {"n/a"}}, 3)

\* Files of one or two rows that differ in their hospitalization counts,
\* some blank; the 28-day ICU column is text throughout.
MetricCsvs ==
    SeqsUpTo({CsvRow(d, "Chile", "AMR", h, "1", h, "unknown") :
                 d \in {DateText(1), DateText(2)},
                 h \in {ToString(n) : n \in 0..MaxCount} \cup {Blank}}, 2)

\* Files of one or two rows of one day that differ in their region (one
\* outside the six, one blank), their country (one blank) and their
\* hospitalizations (negative, zero, positive).
RegionCsvs ==
    SeqsUpTo({CsvRow(DateText(1), c, r, h, "1", "1", "1") :
                 c \in {"Chile", Blank}, r \in {"AMR", "OTHER", Blank},
                 h \in {"-1", "0", ToString(MaxShare)}}, 2)

\* Files of one day with one row per country, up to MaxCountries of them, the
\* countries in ascending or in descending name order, the first k rows with
\* one count and the rest with another.
Names == <<"Brazil", "Chile", "France", "Ghana", "India", "Japan", "Kenya">>

RegionOf(c) == IF StrRank(c) <= StrRank("France") THEN "AMR" ELSE "WPR"

OnePerCountry(n) ==
    {[i \in 1..n |->
         CsvRow(DateText(1), Names[IF up THEN i ELSE n + 1 - i],
                RegionOf(Names[IF up THEN i ELSE n + 1 - i]),
                IF (i <= k) = low THEN "1" ELSE "2", "1", "1", "1")] :
        k \in 0..n, low \in BOOLEAN, up \in BOOLEAN}

\* ... and the two-country files with their first row repeated at the end.
CountryCsvs ==
    UNION {OnePerCountry(n) : n \in 1..MaxCountries}
        \cup {Append(t, t[1]) : t \in OnePerCountry(2)}

\* Files of one day with up to MaxSessionRows rows of two countries.
SessionCsvs ==
    SeqsUpTo({CsvRow(DateText(1), c, "AMR", "1", "1", "2", "1") :
                 c \in {"Chile", "France"}}, MaxSessionRows)

\* ------------------------------------------------------------ the state machine
Execute(w, dr, view, m) ==
    /\ window' = w
    /\ date_range' = dr
    /\ view_mode' = view
    /\ metric_choice' = m
    /\ out' = Script(df, sort_kind, w, dr, view, m)
    /\ golden' = {[g EXCEPT !.moved = @ \/ g.params # <<w, dr, view, m>>] : g \in golden}
    /\ UNCHANGED <<df, sort_kind>>

\* The first execution on a loaded file: every widget at its default.
FirstRun(csvs, kinds) ==
    /\ \E csv \in csvs :
          /\ df = load_data(csv)
          /\ ValidDates(df) # {}
    /\ sort_kind \in kinds
    /\ window = "Weekly (7 days)"
    /\ date_range = <<min_date(df), max_date(df)>>
    /\ view_mode = "Top5_globally"
    /\ metric_choice = "Hospitalizations"
    /\ out = Script(df, sort_kind, window, date_range, view_mode, metric_choice)
    /\ golden = {}

SetWindow ==
    \E w \in Windows \ {window} :
        Execute(w, date_range, view_mode, metric_choice)

SetDateRange ==
    \E dr \in DateInputs(df) \ {date_range} :
        Execute(window, dr, view_mode, metric_choice)

\* The two radios of the country tab exist only in an execution that got there.
SetViewMode ==
    /\ ~out.halted
    /\ \E v \in ViewModes \ {view_mode} :
          Execute(window, date_range, v, metric_choice)

SetMetric ==
    /\ ~out.halted
    /\ \E m \in Metrics \ {metric_choice} :
          Execute(window, date_range, view_mode, m)

Rerun == Execute(window, date_range, view_mode, metric_choice)

Next == SetWindow \/ SetDateRange \/ SetViewMode \/ SetMetric \/ Rerun

Params == <<window, date_range, view_mode, metric_choice>>

Snapshot ==
    /\ golden = {}
    /\ golden' = {[df |-> df, params |-> Params, out |-> out, moved |-> FALSE]}
    /\ UNCHANGED <<df, sort_kind, window, date_range, view_mode, metric_choice, out>>

NextSession == Next \/ Snapshot

InitDates == FirstRun(DateCsvs, {"stable"})

InitMetrics == FirstRun(MetricCsvs, {"stable"})

InitRegions == FirstRun(RegionCsvs, {"stable"})

InitCountries == FirstRun(CountryCsvs, {"stable", "unstable"})

InitSession == FirstRun(SessionCsvs, {"stable", "unstable"})

Spec == InitDates /\ [][Next]_vars

SpecMetrics == InitMetrics /\ [][Next]_vars

SpecRegions == InitRegions /\ [][Next]_vars

SpecCountries == InitCountries /\ [][Next]_vars

SpecSession == InitSession /\ [][NextSession]_vars

\* ------------------------------------------------------------ properties
chosen_start == start_date(df, date_range)

chosen_end == end_date(df, date_range)

\* The positions of the rows of df with a valid date between the chosen bounds.
Matching ==
    {i \in 1..Len(df) :
        /\ df[i].Date_reported # {}
        /\ \A d \in df[i].Date_reported : chosen_start <= d /\ d <= chosen_end}

\* s lists exactly the rows of t at the positions P, in the order of t.
IsSelection(s, t, P) ==
    /\ Len(s) = Cardinality(P)
    /\ \E f \in [1..Len(s) -> P] :
          /\ \A a, b \in 1..Len(s) : a < b => f[a] < f[b]
          /\ \A a \in 1..Len(s) : s[a] = t[f[a]]

\* C1: a row of the loaded table is in the filtered set exactly when its date
\* is valid and lies between the chosen start and end, both inclusive; a row
\* whose date could not be parsed is never in the filtered set.
C1_DateFilter ==
    /\ IsSelection(out.df_global, df, Matching)
    /\ \A k \in 1..Len(out.df_global) : out.df_global[k].Date_reported # {}

\* A row with an unparseable date is left out while a row dated on the chosen
\* end (and another on the chosen start) is kept.
C1_Witness ==
    /\ Len(date_range) = 2
    /\ date_range # <<min_date(df), max_date(df)>>
    /\ \E i \in 1..Len(df) : df[i].Date_reported = {}
    /\ \E k \in 1..Len(out.df_global) : out.df_global[k].Date_reported = {chosen_end}
    /\ Len(out.df_global) < Len(df)

\* C2: when the chosen date range matches no row (start > end included) the
\* execution shows the no-data notice and stops: nothing downstream is computed.
C2_EmptyShortCircuit ==
    Matching = {} =>
        out = [Nothing EXCEPT !.halted = TRUE,
                              !.warnings = {"No data for the current filter selection."}]

\* An ordered range between two dates of the table matches nothing and the
\* execution has stopped.
C2_Witness ==
    /\ Len(date_range) = 2
    /\ chosen_start <= chosen_end
    /\ Matching = {}
    /\ out.halted
    /\ out.ran = {}

\* The dates of the filtered set.
FilteredDates == {d \in 1..31 : \E k \in 1..Len(out.df_global) : out.df_global[k].Date_reported = {d}}

\* The daily global series has one row per date of the filtered set, in
\* ascending date order.
SeriesByDate ==
    /\ {out.df_ts[i].Date_reported : i \in 1..Len(out.df_ts)} = FilteredDates
    /\ \A i, j \in 1..Len(out.df_ts) : i < j => out.df_ts[i].Date_reported < out.df_ts[j].Date_reported

\* v and d are the maximum of col over the daily series and the earliest date holding it.
IsPeak(v, d, col) ==
    /\ v # {} /\ d # {}
    /\ \A i \in 1..Len(out.df_ts) : out.df_ts[i][col] <= item(v)
    /\ \E i \in 1..Len(out.df_ts) :
          /\ out.df_ts[i].Date_reported = item(d)
          /\ out.df_ts[i][col] = item(v)
    /\ \A i \in 1..Len(out.df_ts) :
          out.df_ts[i][col] = item(v) => item(d) <= out.df_ts[i].Date_reported

\* C3: for each of the two window-selected fields the reported peak value is
\* the maximum of the field over the daily global series, and the reported peak
\* date is the earliest date holding that maximum.
C3_Peak ==
    "peak" \in out.ran =>
        /\ SeriesByDate
        /\ IsPeak(out.hosp_peak_value, out.hosp_peak_date, hosp_col(window))
        /\ IsPeak(out.icu_peak_value, out.icu_peak_date, icu_col(window))
        /\ out.peak_hosp = out.hosp_peak_value
        /\ out.peak_icu = out.icu_peak_value

\* Two dates share a positive maximum of hospitalizations and the earlier one
\* is the peak date.
C3_Witness ==
    /\ "peak" \in out.ran
    /\ window = "Monthly (28 days)"
    /\ Len(out.df_ts) = 2
    /\ out.df_ts[1][hosp_col(window)] = out.df_ts[2][hosp_col(window)]
    /\ out.df_ts[1][hosp_col(window)] > 0
    /\ out.hosp_peak_date = {out.df_ts[1].Date_reported}

\* Every value of col is missing in the (non-empty) filtered set.
AllMissing(col) ==
    /\ out.df_global # <<>>
    /\ \A k \in 1..Len(out.df_global) : out.df_global[k][col] = {}

\* C4: when the filtered set is non-empty but every value of the selected
\* field is missing, no numeric peak value and no peak date are produced for
\* that field, and the summary card shows 0.
C4_NoPeakOnAllMissing ==
    /\ AllMissing(hosp_col(window)) =>
          /\ out.peak_hosp = {} /\ out.card_peak_hosp = {0}
          /\ out.hosp_peak_value = {} /\ out.hosp_peak_date = {}
    /\ AllMissing(icu_col(window)) =>
          /\ out.peak_icu = {} /\ out.card_peak_icu = {0}
          /\ out.icu_peak_value = {} /\ out.icu_peak_date = {}

\* The region the country view is scoped to ({} for the global view).
target_region == region_map[view_mode]

\* The positions of the rows of the filtered set that are in scope.
InScope ==
    {k \in 1..Len(out.df_global) :
        target_region = {} \/ out.df_global[k].WHO_region = target_region}

\* The distinct countries in scope.
ScopeCountries ==
    {c \in Range(StrOrder) : \E k \in InScope : out.df_global[k].Country = {c}}

\* The 7-day hospitalizations of country c summed over the rows in scope.
ScopeTotal(c) ==
    ColSum(SelectSeq(out.df_scope, LAMBDA r : r.Country = {c}), H7)

Min(a, b) == IF a < b THEN a ELSE b

\* C5: for every scope with a non-empty scoped set the ranking holds each
\* distinct country in scope once with its summed 7-day hospitalizations, in
\* descending order of total, and top_countries is its first
\* min(5, number of distinct countries in scope) entries.
C5_TopFive ==
    (~out.halted /\ InScope # {}) =>
        /\ "rank" \in out.ran
        /\ IsSelection(out.df_scope, out.df_global, InScope)
        /\ Len(out.df_rank) = Cardinality(ScopeCountries)
        /\ {out.df_rank[i].Country : i \in 1..Len(out.df_rank)} = ScopeCountries
        /\ \A i \in 1..Len(out.df_rank) :
              out.df_rank[i].Total_hosp = ScopeTotal(out.df_rank[i].Country)
        /\ \A i \in 1..(Len(out.df_rank) - 1) :
              out.df_rank[i].Total_hosp >= out.df_rank[i + 1].Total_hosp
        /\ Len(out.top_countries) = Min(TopN, Cardinality(ScopeCountries))
        /\ \A i \in 1..Len(out.top_countries) :
              out.top_countries[i] = out.df_rank[i].Country

\* Under the monthly window more than five countries are in scope and the cut
\* keeps the first five, the fifth ahead of the sixth.
C5_Witness ==
    /\ "rank" \in out.ran
    /\ window = "Monthly (28 days)"
    /\ Cardinality(ScopeCountries) > TopN
    /\ Len(out.top_countries) = TopN
    /\ out.df_rank[TopN].Total_hosp > out.df_rank[TopN + 1].Total_hosp

\* The position in the loaded table of the first row of country c.
FirstSeen(c) == CHOOSE i \in 1..Len(df) : df[i].Country = {c} /\ \A j \in 1..(i - 1) : df[j].Country # {c}

\* C6 as stated: countries with equal totals appear in the ranking, and in
\* the top-5 cut, in the order in which they first occur in the source table.
C6_TiesKeepSourceOrder ==
    "rank" \in out.ran =>
        \A i, j \in 1..Len(out.df_rank) :
            (i < j /\ out.df_rank[i].Total_hosp = out.df_rank[j].Total_hosp)
                => FirstSeen(out.df_rank[i].Country) < FirstSeen(out.df_rank[j].Country)

\* C6 as amended: countries with equal totals stand together in the ranking,
\* after every larger total and before every smaller one, and where the sort
\* is stable they are in ascending order of country name, whatever their order
\* in the source table.
C6_TiesByName ==
    "rank" \in out.ran =>
        \A i, j \in 1..Len(out.df_rank) :
            i < j =>
                /\ out.df_rank[i].Total_hosp >= out.df_rank[j].Total_hosp
                /\ (sort_kind = "stable" /\ out.df_rank[i].Total_hosp = out.df_rank[j].Total_hosp)
                       => StrRank(out.df_rank[i].Country) < StrRank(out.df_rank[j].Country)

\* Under a stable sort two countries tie, the one later in the source table
\* is ranked first, and the tie straddles the top-5 cut.
C6_Witness ==
    /\ "rank" \in out.ran
    /\ metric_choice = "ICU admissions"
    /\ sort_kind = "stable"
    /\ Len(out.df_rank) > TopN
    /\ out.df_rank[TopN].Total_hosp = out.df_rank[TopN + 1].Total_hosp
    /\ FirstSeen(out.df_rank[TopN].Country) > FirstSeen(out.df_rank[TopN + 1].Country)

\* The six WHO region codes the country view can be scoped to.
SixRegions == UNION {region_map[v] : v \in ViewModes}

Unrecognized(r) == r.WHO_region = {} \/ ~(r.WHO_region \subseteq SixRegions)

\* The 7-day totals of the rows of the filtered set whose region is k.
RegionHosp(k) == ColSum(SelectSeq(out.df_global, LAMBDA r : r.WHO_region = {k}), H7)

RegionIcu(k) == ColSum(SelectSeq(out.df_global, LAMBDA r : r.WHO_region = {k}), I7)

\* A region-scoped country view holds no row of an unrecognized region.
ScopedViewsRecognizedOnly ==
    target_region # {} =>
        \A k \in 1..Len(out.df_scope) : ~Unrecognized(out.df_scope[k])

\* The global views count every row of the filtered set, whatever its region.
GlobalViewsCountAll ==
    /\ out.total_hosp_hist = {ColSum(out.df_global, H7)}
    /\ out.total_icu_hist = {ColSum(out.df_global, I7)}
    /\ \A i \in 1..Len(out.df_ts) :
          out.df_ts[i][hosp_col(window)] =
              ColSum(SelectSeq(out.df_global,
                               LAMBDA r : r.Date_reported = {out.df_ts[i].Date_reported}),
                     hosp_col(window))
    /\ target_region = {} => out.df_scope = out.df_global

\* C7 as stated: a row whose region is not one of the six contributes to no
\* regional view (no region-scoped ranking, no row of the regional summary)
\* and still contributes to the global views.
C7_UnrecognizedInNoRegionalView ==
    ~out.halted =>
        /\ ScopedViewsRecognizedOnly
        /\ \A i \in 1..Len(out.df_reg) : out.df_reg[i].WHO_region \in SixRegions
        /\ GlobalViewsCountAll

\* C7 as amended: a row whose region is not one of the six is in no
\* region-scoped country view and still counts in the global views; in the
\* regional summary a row with a missing region counts nowhere, while any other
\* region value, recognized or not, has its own row exactly when its total
\* hospitalizations are positive.
C7_UnrecognizedScopedOutOnly ==
    ~out.halted =>
        /\ ScopedViewsRecognizedOnly
        /\ GlobalViewsCountAll
        /\ \A k \in Range(StrOrder) :
              (\E i \in 1..Len(out.df_reg) : out.df_reg[i].WHO_region = k) <=> RegionHosp(k) > 0
        /\ \A i \in 1..Len(out.df_reg) :
              out.df_reg[i].Total_hosp = RegionHosp(out.df_reg[i].WHO_region)

\* In a region-scoped view of a set that holds a row of region OTHER and a
\* row without region, OTHER has a row of the regional summary.
C7_Witness ==
    /\ ~out.halted
    /\ target_region # {}
    /\ \E k \in 1..Len(out.df_global) : out.df_global[k].WHO_region = {}
    /\ \E k \in 1..Len(out.df_global) : out.df_global[k].WHO_region = {"OTHER"}
    /\ \E i \in 1..Len(out.df_reg) : out.df_reg[i].WHO_region = "OTHER"

\* C8: every row of the regional summary has total_hosp > 0 and icu_pct
\* equal to total_icu / total_hosp * 100, both totals being the 7-day fields
\* summed over the filtered set whatever the window; a region whose total_hosp
\* is <= 0 has no row, so nothing is divided by zero.
C8_RegionalIcuShare ==
    ~out.halted =>
        /\ "regional" \in out.ran
        /\ \A i \in 1..Len(out.df_reg) :
              LET row == out.df_reg[i]
              IN  /\ row.Total_hosp > 0
                  /\ row.Total_hosp = RegionHosp(row.WHO_region)
                  /\ row.Total_icu = RegionIcu(row.WHO_region)
                  /\ row.ICU_pct.den # 0
                  /\ row.ICU_pct.num * row.Total_hosp = row.Total_icu * 100 * row.ICU_pct.den
        /\ \A k \in Range(StrOrder) :
              RegionHosp(k) <= 0 => \A i \in 1..Len(out.df_reg) : out.df_reg[i].WHO_region # k

\* Under the monthly window one region has a row with its share and another,
\* present in the filtered set with a total of zero or less, has none.
C8_Witness ==
    /\ window = "Monthly (28 days)"
    /\ Len(out.df_reg) = 1
    /\ out.df_reg[1].ICU_pct = [num |-> 100, den |-> MaxShare]
    /\ \E k \in 1..Len(out.df_global) :
          /\ out.df_global[k].WHO_region # {}
          /\ out.df_global[k].WHO_region # {out.df_reg[1].WHO_region}

CountryNotices ==
    { "No data available for this region and date/time selection.",
      "No countries found for this selection." }

====
